---- MODULE Spec2Model ----
(***************************************************************************)
(* Session engine of simple-lm-agent (src-tauri/src/lib.rs): the LLMAgent  *)
(* held in AppState behind a tokio Mutex, and the four tauri commands      *)
(* initialize_model, send_message, reset_conversation and                  *)
(* update_system_prompt that callers invoke concurrently.                  *)
(***************************************************************************)
EXTENDS Integers, Sequences, FiniteSets, TLC

\* ---------------------------------------------------------------- bounds
NumTasks == 2        \* concurrent callers of the tauri commands
MaxTurns == 5        \* longest Conversation the callers are allowed to build

Tasks == 1..NumTasks
NoTask == 0

\* ------------------------------------------------------------ environment
\* A path is <<directory, file name>>.
NoPath == <<>>
PathMissing == <<"nonexistent", "model.gguf">>
PathA == <<"models", "a.gguf">>
PathB == <<"bare", "b.gguf">>
\* values MODEL_PATH can have when initialize_model reads it
ModelPaths == {PathMissing, PathA, PathB}
\* the files that exist on disk
Files == {PathA, <<"models", "tokenizer.json">>, PathB}

Messages == {"hello", "bye"}
Responses == {"Hi there.", ""}
DefaultPrompt == "You are a helpful assistant."
\* prompts callers pass to update_system_prompt
Prompts == {"Be terse."}
NoPrompt == "<none>"

\* Path::exists
Exists(p) == p \in Files
\* Path::file_name
file_name(p) == p[2]
\* Path::parent
parent(p) == p[1]

ChatMessage(r, c) == [role |-> r, content |-> c]

VARIABLES
    model_path,      \* LLMAgent.model_path   : NoPath (None) or a path
    model_name,      \* LLMAgent.model_name
    conversation,    \* LLMAgent.conversation : sequence of ChatMessage
    system_prompt,   \* LLMAgent.system_prompt
    is_initialized,  \* LLMAgent.is_initialized
    model,           \* LLMAgent.model     is Some
    tokenizer,       \* LLMAgent.tokenizer is Some
    config,          \* LLMAgent.config : "None", or Some of a config Cache::new
                     \* accepts ("ok") or rejects ("bad")
    cache,           \* LLMAgent.cache     : "None", "fresh" (just created) or "used"
    lock,            \* owner of AppState.llm_agent's Mutex, NoTask when free
    pc,              \* position of each caller inside its command
    arg,             \* argument of the command the Mutex owner is running
    result,          \* what each caller's last command returned
    conv_at_call,    \* the Conversation when the owner's send or reset started
    requested_prompt,\* prompt of the last update_system_prompt call that no
                     \* reset has followed yet
    ever_ready,      \* some initialize call has returned success
    \* one run of the decode loop of generate_response_with_model
    gen_pc,          \* "off", "loop", "decode", "done" or "failed"
    engine,          \* whose loop runs: "session" (lib.rs) or "example" (test.rs)
    tokens,          \* ids of the tokenized prompt
    backend,         \* what the model and the tokenizer do in this run
    generated_tokens,\* generated_tokens
    current_tokens,  \* current_tokens, the context of the next forward pass
    forward_calls,   \* forward passes made so far
    forward_input,   \* the context the last forward pass was given
    stop_reason,     \* how the loop ended
    gen_response     \* what the run returned

agent == <<model_path, model_name, conversation, system_prompt, is_initialized,
           model, tokenizer, config, cache>>
vars == <<model_path, model_name, conversation, system_prompt, is_initialized,
          model, tokenizer, config, cache, lock, pc, arg, result, conv_at_call,
          requested_prompt, ever_ready, gen_pc, engine, tokens, backend,
          generated_tokens, current_tokens, forward_calls, forward_input,
          stop_reason, gen_response>>
session_vars == <<agent, lock, pc, arg, result, conv_at_call, requested_prompt,
                  ever_ready>>
gen_vars == <<gen_pc, engine, tokens, backend, generated_tokens, current_tokens,
              forward_calls, forward_input, stop_reason, gen_response>>

NoArg == "<no argument>"
NoResult == [kind |-> "None", cmd |-> "", msg |-> ""]
Ok(c, m) == [kind |-> "Ok", cmd |-> c, msg |-> m]
Err(c, m) == [kind |-> "Err", cmd |-> c, msg |-> m]

NoBackend == [eosAt |-> 0]
NoResponse == [kind |-> "None", text |-> <<>>]

\* no decode loop is being followed
GenOff ==
    /\ gen_pc = "off"
    /\ engine = "none"
    /\ tokens = <<>>
    /\ backend = NoBackend
    /\ generated_tokens = <<>>
    /\ current_tokens = <<>>
    /\ forward_calls = 0
    /\ forward_input = <<>>
    /\ stop_reason = "none"
    /\ gen_response = NoResponse

\* LLMAgent::new
SessionInit ==
    /\ model_path = NoPath
    /\ model_name = "local-model"
    /\ conversation = <<>>
    /\ system_prompt = DefaultPrompt
    /\ is_initialized = FALSE
    /\ model = FALSE
    /\ tokenizer = FALSE
    /\ config = "None"
    /\ cache = "None"
    /\ lock = NoTask
    /\ pc = [t \in Tasks |-> "idle"]
    /\ arg = [t \in Tasks |-> NoArg]
    /\ result = [t \in Tasks |-> NoResult]
    /\ conv_at_call = [t \in Tasks |-> <<>>]
    /\ requested_prompt = NoPrompt
    /\ ever_ready = FALSE

\* LLMAgent::new and run()
Init == SessionInit /\ GenOff

\* MutexLock with the wait for a free Mutex left out
MutexLock_NoWait(t, from, to) ==
    /\ pc[t] = from
    /\ lock' = t
    /\ pc' = [pc EXCEPT ![t] = to]

\* agent_arc.lock().await : the caller proceeds only when the Mutex is free
MutexLock(t, from, to) ==
    /\ pc[t] = from
    /\ lock = NoTask
    /\ lock' = t
    /\ pc' = [pc EXCEPT ![t] = to]

\* the MutexGuard is dropped and the command returns its result
MutexUnlock(t, from) ==
    /\ pc[t] = from
    /\ lock = t
    /\ lock' = NoTask
    /\ pc' = [pc EXCEPT ![t] = "idle"]

\* ------------------------------------------------------- initialize_model
\* the three places load_tokenizer looks for a tokenizer, in order
tokenizer_paths(mp) ==
    << <<parent(mp), "tokenizer.json">>,
       <<parent(mp), "tokenizer_config.json">>,
       <<".", "tokenizer.json">> >>

\* load_tokenizer: Tokenizer::from_file on the first path that exists
\* (parses says whether from_file accepts that file); an error otherwise
load_tokenizer(parses) ==
    IF model_path = NoPath THEN FALSE
    ELSE LET ps == tokenizer_paths(model_path)
             found == {i \in 1..Len(ps) : Exists(ps[i])}
         IN  IF found = {} THEN FALSE ELSE parses

SystemTurn == ChatMessage("system", system_prompt)

\* a command (initialize_model, send_message or reset_conversation) is invoked
\* and waits at agent_arc.lock().await. Which command it is, like the
\* command's argument, plays no part before the Mutex is taken, so both are
\* drawn by the step that takes it.
CommandCall(t) ==
    /\ UNCHANGED gen_vars
    /\ pc[t] = "idle"
    /\ pc' = [pc EXCEPT ![t] = "lock"]
    /\ UNCHANGED <<agent, lock, arg, result, conv_at_call, requested_prompt, ever_ready>>

\* lines 278-292: MODEL_PATH is read (p) and the Mutex is taken
InitAcquire(t, p) ==
    /\ UNCHANGED gen_vars
    /\ MutexLock(t, "lock", "init_check")
    /\ arg' = [arg EXCEPT ![t] = p]
    /\ UNCHANGED <<agent, result, conv_at_call, requested_prompt, ever_ready>>

\* initialize_check storing the path before it tests that the file exists
initialize_check_PathFirst(t) ==
    /\ model_path' = arg[t]
    /\ model_name' = file_name(arg[t])
    /\ IF ~Exists(arg[t])
       THEN /\ result' = [result EXCEPT ![t] = Err("initialize_model", "Model file not found")]
            /\ pc' = [pc EXCEPT ![t] = "init_ret"]
       ELSE /\ pc' = [pc EXCEPT ![t] = "init_load"]
            /\ UNCHANGED result
    /\ UNCHANGED <<conversation, system_prompt, is_initialized, model,
                   tokenizer, config, cache>>

\* LLMAgent::initialize, lines 50-63: the existence check, then path and name
initialize_check(t) ==
    IF ~Exists(arg[t])
    THEN /\ result' = [result EXCEPT ![t] = Err("initialize_model", "Model file not found")]
         /\ pc' = [pc EXCEPT ![t] = "init_ret"]
         /\ UNCHANGED agent
    ELSE /\ model_path' = arg[t]
         /\ model_name' = file_name(arg[t])
         /\ pc' = [pc EXCEPT ![t] = "init_load"]
         /\ UNCHANGED <<conversation, system_prompt, is_initialized, model,
                        tokenizer, config, cache, result>>

InitCheck(t) ==
    /\ UNCHANGED gen_vars
    /\ pc[t] = "init_check"
    /\ initialize_check(t)
    /\ UNCHANGED <<lock, arg, conv_at_call, requested_prompt, ever_ready>>

\* how far loading gets: the step that fails, or "ok"
LoadOutcomes == {"open", "read", "dtype", "load", "cache", "ok"}
LoadError(o) ==
    CASE o = "open"  -> "io error"
      [] o = "read"  -> "gguf read error"
      [] o = "dtype" -> "Unsupported tensor dtype"
      [] o = "load"  -> "model load error"
      [] o = "cache" -> "cache error"

\* LLMAgent::initialize, lines 65-117: GGUF content, tensors, Llama::load, Cache::new
initialize_load(t, o) ==
    /\ model' = IF o \in {"cache", "ok"} THEN TRUE ELSE model
    /\ config' = IF o = "ok" THEN "ok" ELSE IF o = "cache" THEN "bad" ELSE config
    /\ cache' = IF o = "ok" THEN "fresh" ELSE cache
    /\ IF o = "ok"
       THEN /\ pc' = [pc EXCEPT ![t] = "init_tok"]
            /\ UNCHANGED result
       ELSE /\ pc' = [pc EXCEPT ![t] = "init_ret"]
            /\ result' = [result EXCEPT ![t] = Err("initialize_model", LoadError(o))]
    /\ UNCHANGED <<model_path, model_name, conversation, system_prompt,
                   is_initialized, tokenizer>>

InitLoad(t, o) ==
    /\ UNCHANGED gen_vars
    /\ pc[t] = "init_load"
    /\ initialize_load(t, o)
    /\ UNCHANGED <<lock, arg, conv_at_call, requested_prompt, ever_ready>>

\* initialize_finish reporting success without a tokenizer
initialize_finish_Degraded(t, parses) ==
    /\ tokenizer' = load_tokenizer(parses)
    /\ conversation' = <<SystemTurn>>
    /\ is_initialized' = TRUE
    /\ result' = [result EXCEPT ![t] = Ok("initialize_model", "Successfully loaded GGUF model")]
    /\ pc' = [pc EXCEPT ![t] = "init_ret"]
    /\ UNCHANGED <<model_path, model_name, system_prompt, model, config, cache>>

\* initialize_finish clearing the Conversation without pushing the system Turn
initialize_finish_NoSystemTurn(t, parses) ==
    /\ tokenizer' = load_tokenizer(parses)
    /\ IF ~tokenizer'
       THEN /\ result' = [result EXCEPT ![t] = Err("initialize_model", "Could not load tokenizer")]
            /\ UNCHANGED <<conversation, is_initialized>>
       ELSE /\ conversation' = <<>>
            /\ is_initialized' = TRUE
            /\ result' = [result EXCEPT ![t] = Ok("initialize_model", "Successfully loaded GGUF model")]
    /\ pc' = [pc EXCEPT ![t] = "init_ret"]
    /\ UNCHANGED <<model_path, model_name, system_prompt, model, config, cache>>

\* initialize_finish marking the session uninitialized when no tokenizer loads
initialize_finish_ClearsFlag(t, parses) ==
    /\ tokenizer' = load_tokenizer(parses)
    /\ IF ~tokenizer'
       THEN /\ result' = [result EXCEPT ![t] = Err("initialize_model", "Could not load tokenizer")]
            /\ is_initialized' = FALSE
            /\ UNCHANGED conversation
       ELSE /\ conversation' = <<SystemTurn>>
            /\ is_initialized' = TRUE
            /\ result' = [result EXCEPT ![t] = Ok("initialize_model", "Successfully loaded GGUF model")]
    /\ pc' = [pc EXCEPT ![t] = "init_ret"]
    /\ UNCHANGED <<model_path, model_name, system_prompt, model, config, cache>>

\* LLMAgent::initialize, lines 119-134: tokenizer, then Conversation and flag
initialize_finish(t, parses) ==
    /\ tokenizer' = load_tokenizer(parses)
    /\ IF ~tokenizer'
       THEN /\ result' = [result EXCEPT ![t] = Err("initialize_model", "Could not load tokenizer")]
            /\ UNCHANGED <<conversation, is_initialized>>
       ELSE /\ conversation' = <<SystemTurn>>
            /\ is_initialized' = TRUE
            /\ result' = [result EXCEPT ![t] = Ok("initialize_model", "Successfully loaded GGUF model")]
    /\ pc' = [pc EXCEPT ![t] = "init_ret"]
    /\ UNCHANGED <<model_path, model_name, system_prompt, model, config, cache>>

InitTokenizer(t, parses) ==
    /\ UNCHANGED gen_vars
    /\ pc[t] = "init_tok"
    /\ initialize_finish(t, parses)
    /\ ever_ready' = (ever_ready \/ result'[t].kind = "Ok")
    /\ UNCHANGED <<lock, arg, conv_at_call, requested_prompt>>

\* initialize_model returns: the guard is dropped at the end of the function
InitReturn(t) ==
    /\ UNCHANGED gen_vars
    /\ MutexUnlock(t, "init_ret")
    /\ arg' = [arg EXCEPT ![t] = NoArg]
    /\ result' = [result EXCEPT ![t] = NoResult]
    /\ UNCHANGED <<agent, conv_at_call, requested_prompt, ever_ready>>

\* ----------------------------------------------------------- send_message
\* lines 302-307: the Mutex is taken by a send_message call carrying message m
\* (Conversations of more than MaxTurns Turns are not followed)
SendAcquire(t, m) ==
    /\ UNCHANGED gen_vars
    /\ Len(conversation) + 2 <= MaxTurns
    /\ MutexLock(t, "lock", "send_check")
    /\ arg' = [arg EXCEPT ![t] = m]
    /\ UNCHANGED <<agent, result, conv_at_call, requested_prompt, ever_ready>>

\* send_message_begin with the is_initialized check left out
send_message_begin_NoCheck(t) ==
    /\ conversation' = Append(conversation, ChatMessage("user", arg[t]))
    /\ pc' = [pc EXCEPT ![t] = "send_gen"]
    /\ UNCHANGED result

\* LLMAgent::send_message, lines 158-167: the initialized check, then the user Turn
send_message_begin(t) ==
    IF ~is_initialized
    THEN /\ result' = [result EXCEPT ![t] = Err("send_message", "Model not initialized")]
         /\ pc' = [pc EXCEPT ![t] = "send_ret"]
         /\ UNCHANGED conversation
    ELSE /\ conversation' = Append(conversation, ChatMessage("user", arg[t]))
         /\ pc' = [pc EXCEPT ![t] = "send_gen"]
         /\ UNCHANGED result

SendCheck(t) ==
    /\ UNCHANGED gen_vars
    /\ pc[t] = "send_check"
    /\ conv_at_call' = [conv_at_call EXCEPT ![t] = conversation]
    /\ send_message_begin(t)
    /\ UNCHANGED <<model_path, model_name, system_prompt, is_initialized, model,
                   tokenizer, config, cache, lock, arg, requested_prompt, ever_ready>>

\* what the backend does during one generation: the step that fails, or "ok"
GenOutcomes == {"tokenize", "tensor", "forward", "decode", "ok"}
GenError(o) ==
    CASE o = "tokenize" -> "Tokenization failed"
      [] o = "tensor"   -> "tensor error"
      [] o = "forward"  -> "forward error"
      [] o = "decode"   -> "Decoding failed"

\* generate_response_with_model answering a failure with a canned reply
generate_response_with_model_Fallback(o, r) ==
    IF ~model \/ ~tokenizer \/ cache = "None" \/ o # "ok"
    THEN [kind |-> "Ok", msg |-> "Hello! I am running in fallback mode."]
    ELSE [kind |-> "Ok", msg |-> r]

\* generate_response_with_model, lines 181-254: the result it returns
\* (o: the backend's outcome, r: the decoded and trimmed text)
generate_response_with_model(o, r) ==
    IF ~model THEN [kind |-> "Err", msg |-> "Model not loaded"]
    ELSE IF ~tokenizer THEN [kind |-> "Err", msg |-> "Tokenizer not loaded"]
    ELSE IF cache = "None" THEN [kind |-> "Err", msg |-> "Cache not initialized"]
    ELSE IF o # "ok" THEN [kind |-> "Err", msg |-> GenError(o)]
    ELSE [kind |-> "Ok", msg |-> r]

\* generate_response_with_model, line 216: model.forward writes the decode cache;
\* touched says whether a forward pass that fails had already written it
cache_after_generate(o, touched) ==
    IF ~model \/ ~tokenizer \/ cache = "None" THEN cache
    ELSE IF o \in {"tokenize", "tensor"} THEN cache
    ELSE IF o = "forward" /\ ~touched THEN cache
    ELSE "used"

\* send_message_finish putting the assistant Turn in place of the user Turn
send_message_finish_Overwrite(t, o, r, touched) ==
    LET response == generate_response_with_model(o, r) IN
    /\ cache' = cache_after_generate(o, touched)
    /\ IF response.kind = "Err"
       THEN /\ result' = [result EXCEPT ![t] = Err("send_message", response.msg)]
            /\ UNCHANGED conversation
       ELSE /\ conversation' = [conversation EXCEPT ![Len(conversation)] =
                                   ChatMessage("assistant", response.msg)]
            /\ result' = [result EXCEPT ![t] = Ok("send_message", response.msg)]
    /\ pc' = [pc EXCEPT ![t] = "send_ret"]

\* LLMAgent::send_message, lines 169-178: generate, then the assistant Turn
send_message_finish(t, o, r, touched) ==
    LET response == generate_response_with_model(o, r) IN
    /\ cache' = cache_after_generate(o, touched)
    /\ IF response.kind = "Err"
       THEN /\ result' = [result EXCEPT ![t] = Err("send_message", response.msg)]
            /\ UNCHANGED conversation
       ELSE /\ conversation' = Append(conversation, ChatMessage("assistant", response.msg))
            /\ result' = [result EXCEPT ![t] = Ok("send_message", response.msg)]
    /\ pc' = [pc EXCEPT ![t] = "send_ret"]

SendGenerate(t, o, r, touched) ==
    /\ UNCHANGED gen_vars
    /\ pc[t] = "send_gen"
    /\ send_message_finish(t, o, r, touched)
    /\ UNCHANGED <<model_path, model_name, system_prompt, is_initialized, model,
                   tokenizer, config, lock, arg, conv_at_call, requested_prompt,
                   ever_ready>>

\* send_message returns: the guard is dropped at the end of the inner block
SendReturn(t) ==
    /\ UNCHANGED gen_vars
    /\ MutexUnlock(t, "send_ret")
    /\ arg' = [arg EXCEPT ![t] = NoArg]
    /\ result' = [result EXCEPT ![t] = NoResult]
    /\ conv_at_call' = [conv_at_call EXCEPT ![t] = <<>>]
    /\ UNCHANGED <<agent, requested_prompt, ever_ready>>

\* ----------------------------------------------------- reset_conversation
\* lines 317-320: the Mutex is taken by a reset_conversation call
ResetAcquire(t) ==
    /\ UNCHANGED gen_vars
    /\ MutexLock(t, "lock", "reset_body")
    /\ UNCHANGED <<agent, arg, result, conv_at_call, requested_prompt, ever_ready>>

\* reset_conversation pushing the system Turn without clearing first
reset_conversation_effect_NoClear(conv, cch, cfg) ==
    [conversation |-> Append(conv, SystemTurn),
     cache |-> IF cfg = "ok" THEN "fresh" ELSE cch,
     ok |-> cfg # "bad"]

\* reset_conversation installing a new cache whatever the config
reset_conversation_effect_AlwaysFresh(conv, cch, cfg) ==
    [conversation |-> <<SystemTurn>>, cache |-> "fresh", ok |-> cfg # "bad"]

\* LLMAgent::reset_conversation, lines 256-269, on a Conversation, a cache and
\* a config: the Conversation and the cache it leaves and whether it returns
\* Ok. Cache::new(true, F32, config, device) depends on the config alone, so
\* it fails exactly for the config it failed for in initialize.
reset_conversation_effect(conv, cch, cfg) ==
    [conversation |-> <<SystemTurn>>,
     cache |-> IF cfg = "ok" THEN "fresh" ELSE cch,
     ok |-> cfg # "bad"]

\* LLMAgent_reset_conversation pushing the system Turn onto the old Turns
LLMAgent_reset_conversation_NoClear(t) ==
    LET e == reset_conversation_effect(conversation, cache, config) IN
    /\ conversation' = conversation \o e.conversation
    /\ cache' = e.cache
    /\ result' = [result EXCEPT ![t] =
                    IF e.ok
                    THEN Ok("reset_conversation", "Conversation reset")
                    ELSE Err("reset_conversation", "cache error")]

\* LLMAgent::reset_conversation as the command reset_conversation calls it
LLMAgent_reset_conversation(t) ==
    LET e == reset_conversation_effect(conversation, cache, config) IN
    /\ conversation' = e.conversation
    /\ cache' = e.cache
    /\ result' = [result EXCEPT ![t] =
                    IF e.ok
                    THEN Ok("reset_conversation", "Conversation reset")
                    ELSE Err("reset_conversation", "cache error")]

ResetBody(t) ==
    /\ UNCHANGED gen_vars
    /\ pc[t] = "reset_body"
    /\ LLMAgent_reset_conversation(t)
    /\ pc' = [pc EXCEPT ![t] = "reset_ret"]
    /\ conv_at_call' = [conv_at_call EXCEPT ![t] = conversation]
    /\ requested_prompt' = NoPrompt
    /\ UNCHANGED <<model_path, model_name, system_prompt, is_initialized, model,
                   tokenizer, config, lock, arg, ever_ready>>

ResetReturn(t) ==
    /\ UNCHANGED gen_vars
    /\ MutexUnlock(t, "reset_ret")
    /\ result' = [result EXCEPT ![t] = NoResult]
    /\ conv_at_call' = [conv_at_call EXCEPT ![t] = <<>>]
    /\ UNCHANGED <<agent, arg, requested_prompt, ever_ready>>

\* --------------------------------------------------- update_system_prompt
\* lines 327-331: the prompt is ignored, nothing of the session is touched
\* (the command never takes the Mutex) and a confirmation is returned
update_system_prompt(p) ==
    UNCHANGED <<agent, lock>>

update_system_prompt_returns == Ok("update_system_prompt", "System prompt updated")

UpdateCall(t, p) ==
    /\ UNCHANGED gen_vars
    /\ pc[t] = "idle"
    /\ update_system_prompt(p)
    /\ requested_prompt' = p
    /\ UNCHANGED <<pc, arg, result, conv_at_call, ever_ready>>

\* ------------------------------------------------------------------ system
Next ==
    \E t \in Tasks :
        \/ CommandCall(t)
        \/ \E p \in ModelPaths : InitAcquire(t, p)
        \/ InitCheck(t)
        \/ \E o \in LoadOutcomes : InitLoad(t, o)
        \/ \E parses \in BOOLEAN : InitTokenizer(t, parses)
        \/ InitReturn(t)
        \/ \E m \in Messages : SendAcquire(t, m)
        \/ SendCheck(t)
        \/ \E o \in GenOutcomes, r \in Responses, touched \in BOOLEAN :
              SendGenerate(t, o, r, touched)
        \/ SendReturn(t)
        \/ ResetAcquire(t)
        \/ ResetBody(t)
        \/ ResetReturn(t)
        \/ \E p \in Prompts : UpdateCall(t, p)

Spec == Init /\ [][Next]_vars

TypeOK ==
    /\ model_path \in ModelPaths \cup {NoPath}
    /\ Len(conversation) <= MaxTurns
    /\ \A i \in 1..Len(conversation) :
          conversation[i].role \in {"system", "user", "assistant"}
    /\ is_initialized \in BOOLEAN
    /\ config \in {"None", "ok", "bad"}
    /\ cache \in {"None", "fresh", "used"}
    /\ lock \in Tasks \cup {NoTask}

\* ============================================================ decode loop
\* generate_response_with_model's loop (lib.rs:207-253), followed one forward
\* pass at a time for a prompt and a backend behaviour fixed at the start.
MaxPromptLen == 2    \* longest tokenized prompt tried

max_new_tokens == 256
PunctAfter == 50
PunctEvery == 10

\* token ids of the tokenizer: specials and text pieces
TokUnk == 0
TokBos == 1
TokEos == 2
TokWord == 3
TokDot == 4
TokBang == 5
TokQuestion == 6
TokSpace == 7
SpecialTokens == {TokUnk, TokBos, TokEos}

\* the text piece of a token id
Piece(id) ==
    CASE id = TokWord -> "a"
      [] id = TokDot -> "."
      [] id = TokBang -> "!"
      [] id = TokQuestion -> "?"
      [] id = TokSpace -> " "
      [] OTHER -> ""

NotSpecial(id) == id \notin SpecialTokens

\* tokenizer.decode(ids, true): the pieces of the ids that are not special
Decode(ids) ==
    LET kept == SelectSeq(ids, NotSpecial)
    IN  [i \in 1..Len(kept) |-> Piece(kept[i])]

\* str::trim
Trim(txt) ==
    LET ns == {i \in 1..Len(txt) : txt[i] # " "}
    IN  IF ns = {} THEN <<>>
        ELSE LET lo == CHOOSE i \in ns : \A j \in ns : i <= j
                 hi == CHOOSE i \in ns : \A j \in ns : j <= i
             IN  SubSeq(txt, lo, hi)

\* partial.trim().ends_with('.') || ... ('!') || ... ('?')
EndsTerminal(txt) ==
    LET t == Trim(txt)
    IN  Len(t) > 0 /\ t[Len(t)] \in {".", "!", "?"}

\* prompts: the token ids tokenizer.encode returned
RECURSIVE SeqsOfLen(_, _)
SeqsOfLen(S, n) ==
    IF n = 0 THEN {<<>>}
    ELSE {Append(q, x) : q \in SeqsOfLen(S, n - 1), x \in S}
PromptTokens == UNION {SeqsOfLen({TokBos, TokWord}, n) : n \in 1..MaxPromptLen}

\* backend behaviours: the forward pass number at which the argmax is an
\* end-of-sequence id (0: never), the passes whose argmax is a punctuation
\* token, a pass whose argmax is a space, the pass that returns an error
\* (0: never), and whether tokenizer.decode succeeds
EosChoices == {<<0, TokEos>>, <<1, TokUnk>>, <<1, TokEos>>, <<55, TokEos>>,
               <<60, TokEos>>, <<256, TokUnk>>}
PunctChoices ==
    {[from |-> 0, to |-> 0, tok |-> TokDot, space |-> 0],
     [from |-> 50, to |-> 50, tok |-> TokDot, space |-> 0],
     [from |-> 60, to |-> 60, tok |-> TokBang, space |-> 0],
     [from |-> 70, to |-> 70, tok |-> TokQuestion, space |-> 0],
     [from |-> 61, to |-> 69, tok |-> TokDot, space |-> 0],
     [from |-> 59, to |-> 59, tok |-> TokDot, space |-> 60],
     [from |-> 1, to |-> 256, tok |-> TokDot, space |-> 0]}
FailChoices == {0, 2}
Backends ==
    {[eosAt |-> e[1], eosId |-> e[2], punct |-> p, failAt |-> f, decodes |-> d] :
        e \in EosChoices, p \in PunctChoices, f \in FailChoices, d \in BOOLEAN}

\* logits...argmax of forward pass number n (lib.rs:216-222)
next_token_id(b, n) ==
    IF n = b.eosAt THEN b.eosId
    ELSE IF b.punct.from <= n /\ n <= b.punct.to THEN b.punct.tok
    ELSE IF n = b.punct.space THEN TokSpace
    ELSE TokWord

\* lib.rs:208-209: the loop is entered with the prompt as its context
GenInit ==
    /\ SessionInit
    /\ gen_pc = "loop"
    /\ engine \in {"session", "example"}
    /\ tokens \in PromptTokens
    /\ backend \in Backends
    /\ generated_tokens = <<>>
    /\ current_tokens = tokens
    /\ forward_calls = 0
    /\ forward_input = <<>>
    /\ stop_reason = "none"
    /\ gen_response = NoResponse

\* is_eos testing for id 2 only
is_eos_OnlyTwo(id) == id = TokEos

\* lib.rs:225: the end-of-sequence test
is_eos(id) == id = TokEos \/ id = TokUnk

\* next_context keeping only the new token, as a cached decoder would
next_context_OnlyNew(cur, id) == <<id>>

\* lib.rs:233-234: the context of the next pass
next_context(cur, id) == Append(cur, id)

\* punctuation_check_due with >= in place of >
punctuation_check_due_AtLeast(n) == n >= PunctAfter /\ n % PunctEvery = 0

\* lib.rs:237: when the punctuation test is made
punctuation_check_due(n) == n > PunctAfter /\ n % PunctEvery = 0

\* lib.rs:239-243: the punctuation test on the partial decode
punctuation_stop(b, gen) ==
    /\ punctuation_check_due(Len(gen))
    /\ b.decodes
    /\ EndsTerminal(Decode(gen))

\* loop_continues without the cap
loop_continues_NoCap(i) == TRUE

\* lib.rs:212: for i in 0..max_new_tokens, after i passes
loop_continues(i) == i < max_new_tokens

\* lib.rs:212-245: one iteration of the loop
loop_iteration ==
    LET n == forward_calls + 1
        id == next_token_id(backend, n)
        gen == Append(generated_tokens, id)
    IN  /\ forward_calls' = n
        /\ forward_input' = current_tokens
        /\ IF n = backend.failAt
           THEN /\ gen_pc' = "failed"
                /\ stop_reason' = "error"
                /\ gen_response' = [kind |-> "Err", text |-> "forward error"]
                /\ UNCHANGED <<generated_tokens, current_tokens>>
           ELSE /\ UNCHANGED gen_response
                /\ IF is_eos(id)
                   THEN /\ gen_pc' = "decode"
                        /\ stop_reason' = "eos"
                        /\ UNCHANGED <<generated_tokens, current_tokens>>
                   ELSE /\ generated_tokens' = gen
                        /\ current_tokens' = next_context(current_tokens, id)
                        /\ IF punctuation_stop(backend, gen)
                           THEN gen_pc' = "decode" /\ stop_reason' = "punct"
                           ELSE IF loop_continues(n)
                           THEN gen_pc' = "loop" /\ UNCHANGED stop_reason
                           ELSE gen_pc' = "decode" /\ stop_reason' = "cap"

LoopStep ==
    /\ gen_pc = "loop"
    /\ engine = "session"
    /\ loop_iteration
    /\ UNCHANGED <<session_vars, engine, tokens, backend>>

\* lib.rs:247-253: decode the generated tokens and trim
final_decode ==
    IF backend.decodes
    THEN /\ gen_response' = [kind |-> "Ok", text |-> Trim(Decode(generated_tokens))]
         /\ gen_pc' = "done"
    ELSE /\ gen_response' = [kind |-> "Err", text |-> "Decoding failed"]
         /\ gen_pc' = "failed"

FinalDecode ==
    /\ gen_pc = "decode"
    /\ engine = "session"
    /\ final_decode
    /\ UNCHANGED <<session_vars, engine, tokens, backend, generated_tokens, current_tokens,
                   forward_calls, forward_input, stop_reason>>

\* ---- the loop of test.rs main: output_ids is held in current_tokens
example_max_tokens == 128

\* test.rs:34: tokenizer.token_to_id("</s>").unwrap_or(0)
example_eos_id == TokEos

\* test.rs:27: for _ in 0..128, after i passes
example_continues(i) == i < example_max_tokens

\* test.rs:27-38: one iteration
example_iteration ==
    LET n == forward_calls + 1
        id == next_token_id(backend, n)
    IN  /\ forward_calls' = n
        /\ forward_input' = current_tokens
        /\ IF n = backend.failAt
           THEN /\ gen_pc' = "failed"
                /\ stop_reason' = "error"
                /\ gen_response' = [kind |-> "Err", text |-> "forward error"]
                /\ UNCHANGED current_tokens
           ELSE /\ UNCHANGED gen_response
                /\ IF id = example_eos_id
                   THEN /\ gen_pc' = "decode"
                        /\ stop_reason' = "eos"
                        /\ UNCHANGED current_tokens
                   ELSE /\ current_tokens' = Append(current_tokens, id)
                        /\ IF example_continues(n)
                           THEN gen_pc' = "loop" /\ UNCHANGED stop_reason
                           ELSE gen_pc' = "decode" /\ stop_reason' = "cap"

ExampleStep ==
    /\ gen_pc = "loop"
    /\ engine = "example"
    /\ example_iteration
    /\ UNCHANGED <<session_vars, engine, tokens, backend, generated_tokens>>

\* test.rs:41-42: decode output_ids, the prompt included
ExampleDecode ==
    /\ gen_pc = "decode"
    /\ engine = "example"
    /\ IF backend.decodes
       THEN /\ gen_response' = [kind |-> "Ok", text |-> Decode(current_tokens)]
            /\ gen_pc' = "done"
       ELSE /\ gen_response' = [kind |-> "Err", text |-> "Decoding failed"]
            /\ gen_pc' = "failed"
    /\ UNCHANGED <<session_vars, engine, tokens, backend, generated_tokens,
                   current_tokens, forward_calls, forward_input, stop_reason>>

\* tokens generated so far
Generated ==
    IF engine = "example"
    THEN SubSeq(current_tokens, Len(tokens) + 1, Len(current_tokens))
    ELSE generated_tokens

\* the cap of the running loop
Cap == IF engine = "example" THEN example_max_tokens ELSE max_new_tokens

GenNext == LoopStep \/ FinalDecode \/ ExampleStep \/ ExampleDecode

GenSpec == GenInit /\ [][GenNext]_vars

GenTypeOK ==
    /\ gen_pc \in {"loop", "decode", "done", "failed"}
    /\ forward_calls \in 0..Cap
    /\ Len(current_tokens) = Len(tokens) + Len(Generated)

\* ================================================================= claims
\* pcs at which a caller is inside the guarded part of initialize/send/reset
InProgress == {"init_check", "init_load", "init_tok", "init_ret",
               "send_check", "send_gen", "send_ret", "reset_body", "reset_ret"}
Waiting == {"lock"}

LastTurn == conversation[Len(conversation)]

\* C1: for a Ready session, when send returns the Conversation is either what
\* it was before the call or that plus the user Turn and the assistant Turn,
\* in that order; no orphan user Turn remains after a failed generation.
C1_SendPairOrNothing ==
    \A t \in Tasks :
        (pc[t] = "send_ret" /\ is_initialized) =>
            \/ conversation = conv_at_call[t]
            \/ /\ Len(conversation) = Len(conv_at_call[t]) + 2
               /\ SubSeq(conversation, 1, Len(conv_at_call[t])) = conv_at_call[t]
               /\ conversation[Len(conversation) - 1] = ChatMessage("user", arg[t])
               /\ LastTurn.role = "assistant"

\* C2: a send on a session no initialize has ever succeeded on returns
\* "Model not initialized" and leaves the Conversation as it was, whatever the
\* message and whatever failed initialize calls came before.
C2_SendBeforeInitialize ==
    \A t \in Tasks :
        (pc[t] = "send_ret" /\ ~ever_ready) =>
            /\ result[t] = Err("send_message", "Model not initialized")
            /\ conversation = conv_at_call[t]

\* a send returned on a session whose only initialize got as far as the
\* tokenizer and failed there
C2_Witness ==
    \E t \in Tasks :
        /\ pc[t] = "send_ret"
        /\ ~ever_ready
        /\ model /\ ~tokenizer /\ cache = "fresh"
        /\ arg[t] = "hello"

\* the errors generate_response_with_model can return
GenerationErrors ==
    {"Model not loaded", "Tokenizer not loaded", "Cache not initialized",
     "Tokenization failed", "tensor error", "forward error", "Decoding failed"}

\* C3 (as claimed): for a Ready session send always returns a response text,
\* never an error.
C3_SendNeverFails ==
    \A t \in Tasks :
        (pc[t] = "send_ret" /\ is_initialized) => result[t].kind = "Ok"

\* C3 (amended): for a Ready session send returns either the text the
\* backend generated, which is then the content of the last, assistant Turn,
\* or the generation error; no other reply is substituted for a failure.
C3_SendReturnsResponseOrError ==
    \A t \in Tasks :
        (pc[t] = "send_ret" /\ is_initialized) =>
            \/ /\ result[t].kind = "Ok"
               /\ result[t].msg \in Responses
               /\ LastTurn = ChatMessage("assistant", result[t].msg)
            \/ /\ result[t].kind = "Err"
               /\ result[t].msg \in GenerationErrors
               /\ LastTurn.role # "assistant" \/ conversation = conv_at_call[t]

\* a send on a Ready session returned the error of a failed forward pass
C3_Witness ==
    \E t \in Tasks :
        /\ pc[t] = "send_ret"
        /\ is_initialized
        /\ result[t] = Err("send_message", "forward error")

\* C4 (as claimed): the only error initialize returns is "Model file not
\* found": with an existing artifact it always succeeds.
C4_OnlyArtifactNotFound ==
    \A t \in Tasks :
        (pc[t] = "init_ret" /\ result[t].kind = "Err") =>
            result[t].msg = "Model file not found"

\* C4 (amended): initialize returns success only with the artifact present
\* and the model, config, cache and tokenizer all loaded, and then the session
\* is Ready with a fresh Conversation; when it returns an error it has not
\* made a session Ready that no initialize had made Ready before.
C4_InitializeSucceedsOnlyLoaded ==
    \A t \in Tasks :
        pc[t] = "init_ret" =>
            /\ result[t].kind \in {"Ok", "Err"}
            /\ result[t].kind = "Ok" =>
                  /\ is_initialized /\ ever_ready
                  /\ Exists(model_path) /\ model_path = arg[t]
                  /\ model /\ config = "ok" /\ tokenizer /\ cache = "fresh"
                  /\ conversation = <<SystemTurn>>
            /\ (result[t].kind = "Err" /\ ~ever_ready) => ~is_initialized

\* initialize found the artifact and returned an error because no tokenizer
\* could be loaded; the session is still Uninitialized
C4_Witness ==
    \E t \in Tasks :
        /\ pc[t] = "init_ret"
        /\ Exists(arg[t])
        /\ result[t] = Err("initialize_model", "Could not load tokenizer")
        /\ ~is_initialized

\* C5: initialize with a path that is no existing file returns "Model file
\* not found" and changes no field of the session.
C5_NotFoundChangesNothing ==
    [][\A t \in Tasks :
          (pc[t] = "init_check" /\ ~Exists(arg[t]) /\ pc'[t] # pc[t]) =>
              /\ pc'[t] = "init_ret"
              /\ result'[t] = Err("initialize_model", "Model file not found")
              /\ UNCHANGED agent]_vars

\* initialize returned "Model file not found" on an Uninitialized session
C5_Witness ==
    \E t \in Tasks :
        /\ pc[t] = "init_ret"
        /\ arg[t] = PathMissing
        /\ result[t] = Err("initialize_model", "Model file not found")
        /\ ~is_initialized
        /\ model_path = NoPath

\* C6: after reset the Conversation is exactly one Turn, of role system, whose
\* content is the configured system prompt.
C6_ResetYieldsSystemTurn ==
    \A t \in Tasks :
        pc[t] = "reset_ret" =>
            /\ Len(conversation) = 1
            /\ conversation[1].role = "system"
            /\ conversation[1].content = system_prompt

\* reset ran on a Conversation that held user and assistant Turns
C6_Witness ==
    \E t \in Tasks :
        /\ pc[t] = "reset_ret"
        /\ Len(conv_at_call[t]) >= 4
        /\ Len(conversation) = 1

\* C7: update_system_prompt(p) leaves the Conversation as it is, and the
\* reset that follows on the Ready session puts p into the system Turn.
C7_PromptTakesEffectOnReset ==
    [][\A t \in Tasks :
          /\ (pc[t] = "idle" /\ requested_prompt' # requested_prompt
                /\ requested_prompt' # NoPrompt)
                => conversation' = conversation
          /\ (pc[t] = "reset_body" /\ pc'[t] = "reset_ret"
                /\ is_initialized /\ requested_prompt # NoPrompt)
                => conversation'[1].content = requested_prompt]_vars

\* C8: reset on a session no initialize has succeeded on returns the
\* "Model not initialized" error and leaves the Conversation as it was.
C8_ResetBeforeInitializeRejected ==
    \A t \in Tasks :
        (pc[t] = "reset_ret" /\ ~ever_ready) =>
            /\ result[t] = Err("reset_conversation", "Model not initialized")
            /\ conversation = conv_at_call[t]

C10_SystemTurnFirst ==
    /\ conversation # <<>> => conversation[1].role = "system"
    /\ ever_ready => conversation # <<>>

\* a Ready session whose Conversation holds an orphan user Turn of a failed
\* send followed by the Turns of later sends
C10_Witness ==
    /\ ever_ready
    /\ Len(conversation) >= 4
    /\ conversation[2].role = "user"
    /\ conversation[3].role = "user"

\* ------------------------------------------------------ decode loop claims
\* the ids the backend's first n forward passes selected
Selected(n) == [i \in 1..n |-> next_token_id(backend, i)]

\* C11: the decode loop ends: it makes at most max_new_tokens forward passes
\* (256 in the session engine, 128 in the example) and generates at most that
\* many tokens, every iteration that continues has made one more pass and
\* one more token, and the loop is not running any more once an
\* end-of-sequence id has been selected or the cap has been reached.
C11_LoopTerminates ==
    /\ forward_calls <= Cap
    /\ Len(Generated) <= Cap
    /\ gen_pc = "loop" => (forward_calls < Cap /\ Len(Generated) = forward_calls)
    /\ (engine = "session" /\ backend.eosAt \in 1..forward_calls) => gen_pc # "loop"
    /\ stop_reason \in {"eos", "punct"} => forward_calls <= Cap
    /\ forward_calls = Cap => gen_pc # "loop"

\* the session's loop ran to its cap against a backend that never selects an
\* end-of-sequence id and never ends a sentence
C11_Witness ==
    /\ engine = "session"
    /\ backend.eosAt = 0
    /\ backend.punct.from = 0
    /\ stop_reason = "cap"
    /\ forward_calls = 256
    /\ gen_pc = "done"

\* C12: the context given to forward pass n+1 is the prompt tokens followed
\* by the tokens selected in passes 1..n, in that order.
C12_ContextIsPromptThenGenerated ==
    forward_calls >= 1 =>
        forward_input = tokens \o Selected(forward_calls - 1)

\* the session's third forward pass was given the prompt and two tokens
C12_Witness ==
    /\ engine = "session"
    /\ forward_calls = 3
    /\ Len(forward_input) = Len(tokens) + 2
    /\ Len(tokens) = 2

\* C13 (as claimed): the punctuation test is made when the number n of
\* generated tokens is at least 50 and a multiple of 10, so a text ending in
\* '.', '!' or '?' at n = 50 stops the loop at 50, and the test stops the loop
\* at no other count.
C13_CheckFromFifty ==
    engine = "session" =>
        /\ (gen_pc = "loop" /\ Len(generated_tokens) >= 50
              /\ Len(generated_tokens) % 10 = 0 /\ backend.decodes)
              => ~EndsTerminal(Decode(generated_tokens))
        /\ stop_reason = "punct" =>
              Len(generated_tokens) >= 50 /\ Len(generated_tokens) % 10 = 0

\* C13 (amended): the punctuation test is made when n is greater than 50 and
\* a multiple of 10, first at n = 60: a text ending in '.', '!' or '?' then
\* stops the loop, and the test stops the loop at no other count.
C13_CheckAfterFifty ==
    engine = "session" =>
        /\ (gen_pc = "loop" /\ Len(generated_tokens) > 50
              /\ Len(generated_tokens) % 10 = 0 /\ backend.decodes)
              => ~EndsTerminal(Decode(generated_tokens))
        /\ stop_reason = "punct" =>
              /\ Len(generated_tokens) > 50
              /\ Len(generated_tokens) % 10 = 0
              /\ backend.decodes
              /\ EndsTerminal(Decode(generated_tokens))

\* the punctuation test stopped the loop at 60 tokens after a text that also
\* ended a sentence at 50 tokens
C13_Witness ==
    /\ engine = "session"
    /\ stop_reason = "punct"
    /\ Len(generated_tokens) = 60
    /\ generated_tokens[50] = TokDot

\* C19: the tokens decoded into the response are the ids selected in the
\* loop, in order, none of them 0 or 2 and the prompt not among them; the
\* response is their trimmed decoding.
C19_GeneratedExcludesEosAndPrompt ==
    engine = "session" =>
        /\ \A i \in 1..Len(generated_tokens) : generated_tokens[i] \notin {0, 2}
        /\ generated_tokens = Selected(Len(generated_tokens))
        /\ Len(generated_tokens) <= forward_calls
        /\ gen_pc \in {"loop", "decode", "done"} =>
              current_tokens = tokens \o generated_tokens
        /\ gen_pc = "done" =>
              gen_response = [kind |-> "Ok", text |-> Trim(Decode(generated_tokens))]

\* a run that stopped at an end-of-sequence id after 54 tokens and returned
C19_Witness ==
    /\ engine = "session"
    /\ gen_pc = "done"
    /\ stop_reason = "eos"
    /\ Len(generated_tokens) = 54
    /\ Len(tokens) = 2

\* C14: when send_message returns a response, the Conversation is the
\* Conversation found at the call, every Turn of it unchanged and in place,
\* followed by exactly two Turns: the user Turn with the sent text, then the
\* assistant Turn with the returned response.
C14_SendAppendsUserThenAssistant ==
    \A t \in Tasks :
        (pc[t] = "send_ret" /\ result[t].kind = "Ok") =>
            conversation = conv_at_call[t] \o
                <<ChatMessage("user", arg[t]),
                  ChatMessage("assistant", result[t].msg)>>

\* a send returned a response on a Conversation that already held an exchange
C14_Witness ==
    \E t \in Tasks :
        /\ pc[t] = "send_ret"
        /\ result[t].kind = "Ok"
        /\ Len(conv_at_call[t]) = 3
        /\ Len(conversation) = 5

\* C15: in the state a reset_conversation call leaves, a second
\* reset_conversation finds nothing to change, neither the Conversation nor
\* the cache (the other fields it never writes), and returns the outcome the
\* first call returned.
C15_ResetIdempotent ==
    \A t \in Tasks :
        pc[t] = "reset_ret" =>
            LET again == reset_conversation_effect(conversation, cache, config) IN
            /\ again.conversation = conversation
            /\ again.cache = cache
            /\ again.ok = (result[t].kind = "Ok")

\* a reset returned on a session that had an exchange and a used cache
C15_Witness ==
    \E t \in Tasks :
        /\ pc[t] = "reset_ret"
        /\ result[t].kind = "Ok"
        /\ Len(conv_at_call[t]) >= 3
        /\ conversation = <<SystemTurn>>
        /\ cache = "fresh"

\* C16: the session is marked initialized exactly when some initialize call
\* has returned success: nothing else sets the flag, and no later call,
\* succeeding or failing, clears it.
C16_ReadyOnlyByInitializeAndForGood ==
    is_initialized <=> ever_ready

\* an initialize call failed on a session that was already Ready
C16_Witness ==
    \E t \in Tasks :
        /\ pc[t] = "init_ret"
        /\ result[t].kind = "Err"
        /\ is_initialized
        /\ ever_ready

\* C17 (as claimed): a session marked initialized has its model, tokenizer,
\* config and cache all present.
C17_ReadyImpliesLoaded ==
    is_initialized =>
        /\ model
        /\ tokenizer
        /\ config # "None"
        /\ cache # "None"

\* C18 (as claimed): reset_conversation replaces the Conversation and, when a
\* config is present, the cache, and leaves model, tokenizer, config, model
\* path, model name, system prompt and initialized flag as they were.
C18_ResetReplacesCacheWhenConfig ==
    [][\A t \in Tasks :
          (pc[t] = "reset_body" /\ pc'[t] = "reset_ret") =>
              /\ conversation' = <<SystemTurn>>
              /\ cache' = IF config # "None" THEN "fresh" ELSE cache
              /\ UNCHANGED <<model, tokenizer, config, model_path, model_name,
                             system_prompt, is_initialized>>]_vars

\* C18 (amended): reset_conversation replaces the Conversation; it replaces
\* the cache when a config is present from which a cache can be built, and
\* otherwise keeps the cache it found, returning an error when a config is
\* present and no cache can be built from it; model, tokenizer, config, model
\* path, model name, system prompt and initialized flag stay as they were.
C18_ResetReplacesCacheWhenBuildable ==
    [][\A t \in Tasks :
          (pc[t] = "reset_body" /\ pc'[t] = "reset_ret") =>
              /\ conversation' = <<SystemTurn>>
              /\ cache' = IF config = "ok" THEN "fresh" ELSE cache
              /\ (result'[t].kind = "Err") <=> (config = "bad")
              /\ UNCHANGED <<model, tokenizer, config, model_path, model_name,
                             system_prompt, is_initialized>>]_vars

\* a reset returned success on a Ready session whose cache had served a send:
\* weights, tokenizer and config are still there and the cache is new
C18_Witness ==
    \E t \in Tasks :
        /\ pc[t] = "reset_ret"
        /\ result[t].kind = "Ok"
        /\ is_initialized /\ model /\ tokenizer /\ config = "ok"
        /\ cache = "fresh"
        /\ Len(conv_at_call[t]) = 5

====
